---- MODULE Spec2Model ----
(***************************************************************************)
(* History store cursor positioning and value reconstruction               *)
(* (src/src/history/hs_cursor.c): __wt_hs_row_search, __wt_hs_modify,      *)
(* __wt_hs_cursor_position and __wt_hs_find_upd.                           *)
(***************************************************************************)
EXTENDS Integers, Sequences, FiniteSets, TLC

(***************************************************************************)
(* Bounds of the model.                                                    *)
(***************************************************************************)
\* Largest timestamp an entry of the history store is written with.
MaxTs == 2
\* Largest number of entries of a history store at rest.
MaxStore == 2
\* Largest number of entries the writers insert.
MaxInserts == 3
\* Largest number of entries on a leaf page.
MaxEntries == 3
\* Largest timestamp of a version of the record __wt_hs_find_upd resolves.
MaxVersions == 3

(***************************************************************************)
(* Program constants (widths scaled down to the modelled domain).          *)
(***************************************************************************)
WT_TS_NONE == 0
WT_TS_MAX == 7
UINT64_MAX == 7
WT_TXN_NONE == 0
WT_NOTFOUND == -31803
\* Any error of a collaborator other than WT_NOTFOUND.
EIO == 5

WT_UPDATE_INVALID == "INVALID"
WT_UPDATE_MODIFY == "MODIFY"
WT_UPDATE_STANDARD == "STANDARD"

WT_ISO_READ_COMMITTED == "READ_COMMITTED"
WT_ISO_READ_UNCOMMITTED == "READ_UNCOMMITTED"
WT_ISO_SNAPSHOT == "SNAPSHOT"

\* Trees a session can be bound to.
HS_BTREE == "hs"
DATA_BTREE == "data"

\* The records of the data store whose history is kept: <<table id, key>>.
Records == {<<1, <<2>>>>, <<1, <<1, 1>>>>, <<2, <<2>>>>}
\* State of the transaction the writers run in, as seen by a reader.
TxnStates == {"uncommitted", "committed", "after_snapshot"}

\* The transaction id of the writers' transaction.
WriterTxn == 1

VARIABLES
  hs,       \* the history store: HistoryKey -> HistoryRecord
  txn,      \* the state of the writers' transaction
  session,  \* the reader's session: isolation level and current tree
  pos,      \* the call of __wt_hs_cursor_position in progress
  wr,       \* the writer's btree cursor (hs_cbt) and the writer's position
  fu        \* the call of __wt_hs_find_upd in progress, its arguments and result

vars == <<hs, txn, session, pos, wr, fu>>

(***************************************************************************)
(* Key codec and raw comparison.                                           *)
(***************************************************************************)
\* The composite key (btree id, record key, timestamp, counter).
Counters == {0, 1}
HistoryKeys ==
  {<<r[1], r[2], t, c>> : r \in Records, t \in 1..MaxTs, c \in Counters}

\* The packed key: integers pack to one order-preserving unit, the record
\* key in the middle of the format carries its length in front.
EncodeKey(btree_id, key, timestamp, counter) ==
  <<btree_id, Len(key)>> \o key \o <<timestamp, counter>>

Raw(e) == EncodeKey(e[1], e[2], e[3], e[4])

Min2(a, b) == IF a < b THEN a ELSE b

\* Lexicographic comparison of two raw items: -1, 0 or 1.
RECURSIVE LexFrom(_, _, _)
LexFrom(a, b, i) ==
  IF i > Min2(Len(a), Len(b))
    THEN (IF Len(a) = Len(b) THEN 0 ELSE IF Len(a) < Len(b) THEN -1 ELSE 1)
    ELSE IF a[i] < b[i] THEN -1
    ELSE IF a[i] > b[i] THEN 1
    ELSE LexFrom(a, b, i + 1)

wt_compare(a, b) == LexFrom(a, b, 1)

(***************************************************************************)
(* The ordered structure and its cursor, as seen through a session.        *)
(***************************************************************************)
\* An update is visible to every reader at read-uncommitted isolation, to
\* committed readers once its transaction committed, and to snapshot readers
\* if the transaction committed before the snapshot was taken.
Visible(rec, iso) ==
  \/ iso = WT_ISO_READ_UNCOMMITTED
  \/ rec.txnid = WT_TXN_NONE
  \/ iso = WT_ISO_READ_COMMITTED /\ txn # "uncommitted"
  \/ iso = WT_ISO_SNAPSHOT /\ txn = "committed"

VisibleKeys(store, iso) == {e \in DOMAIN store : Visible(store[e], iso)}

Below(S, raw) == {e \in S : wt_compare(Raw(e), raw) < 0}
Above(S, raw) == {e \in S : wt_compare(Raw(e), raw) > 0}
AtOrBelow(S, raw) == {e \in S : wt_compare(Raw(e), raw) <= 0}

Greatest(S) == CHOOSE e \in S : \A f \in S : wt_compare(Raw(f), Raw(e)) <= 0
Least(S) == CHOOSE e \in S : \A f \in S : wt_compare(Raw(f), Raw(e)) >= 0

\* Outcomes of search_near for a raw key: <<ret, exact, raw key landed on>>.
\* An exact match is returned as such; otherwise the search lands on one of
\* the two neighbours of the key, whichever the page layout leads to.
SearchNearOutcomes(S, raw) ==
  IF S = {} THEN {<<WT_NOTFOUND, 0, <<>>>>}
  ELSE IF \E e \in S : Raw(e) = raw THEN {<<0, 0, raw>>}
  ELSE {<<0, 1, Raw(Least(Above(S, raw)))>> : x \in {1} \cap {IF Above(S, raw) # {} THEN 1 ELSE 0}}
       \cup
       {<<0, -1, Raw(Greatest(Below(S, raw)))>> : x \in {1} \cap {IF Below(S, raw) # {} THEN 1 ELSE 0}}

\* Outcomes of prev from a raw position: <<ret, raw key landed on>>.
PrevOutcome(S, raw) ==
  IF Below(S, raw) = {} THEN <<WT_NOTFOUND, <<>>>>
  ELSE <<0, Raw(Greatest(Below(S, raw)))>>

(***************************************************************************)
(* __wt_hs_cursor_position and __hs_cursor_position_int.                   *)
(***************************************************************************)
NoKey == <<>>

PosIdle ==
  [pc |-> "idle", btree_id |-> 0, key |-> NoKey, timestamp |-> 0, user |-> FALSE,
   srch_key |-> NoKey, scr |-> 0, ckey |-> NoKey, exact |-> 0, ret |-> 0,
   saved_iso |-> WT_ISO_SNAPSHOT, saved_bt |-> DATA_BTREE,
   skips |-> 0, raced |-> FALSE, seen |-> {},
   \* the search key buffers the call allocated, and the one it released
   allocs |-> 0, freed |-> "none"]

\* WT_WITH_TXN_ISOLATION(session, WT_ISO_READ_UNCOMMITTED, ...): the level
\* the body runs under, given the session's own level.
PositionIsolationKept(iso) == iso
PositionIsolation(iso) == WT_ISO_READ_UNCOMMITTED

\* The counter of the search key.
SearchCounter == UINT64_MAX

\* The exit test of the backward loop: if (cmp <= 0) break.
LoopBreakNever(cmp) == FALSE
LoopBreakAfterOneStep(cmp) == TRUE
LoopBreak(cmp) == cmp <= 0

\* if (exact > 0): whether the backward loop is entered.
StepBackNever(exact) == FALSE
StepBack(exact) == exact > 0

\* Entry: the two scoping macros, then the choice of the search key buffer.
hs_cursor_position_enter(btree_id, key, timestamp, user, alloc_ret) ==
  /\ pos.pc = "idle"
  /\ session' = [isolation |-> PositionIsolation(session.isolation), btree |-> HS_BTREE]
  /\ pos' = [PosIdle EXCEPT
               !.btree_id = btree_id, !.key = key, !.timestamp = timestamp,
               !.user = user,
               !.saved_iso = session.isolation, !.saved_bt = session.btree,
               !.scr = IF ~user /\ alloc_ret = 0 THEN 1 ELSE 0,
               !.allocs = IF ~user /\ alloc_ret = 0 THEN 1 ELSE 0,
               !.ret = IF user THEN 0 ELSE alloc_ret,
               !.pc = IF ~user /\ alloc_ret # 0 THEN "ret" ELSE "set_key"]
  /\ UNCHANGED <<hs, txn, wr, fu>>

\* cursor->set_key(...), then the copy of the raw key into srch_key.
hs_cursor_position_set_key(copy_ret) ==
  /\ pos.pc = "set_key"
  /\ LET raw == EncodeKey(pos.btree_id, pos.key, pos.timestamp, SearchCounter)
     IN pos' = [pos EXCEPT
                  !.ckey = raw,
                  !.srch_key = IF copy_ret = 0 THEN raw ELSE NoKey,
                  !.ret = copy_ret,
                  !.pc = IF copy_ret = 0 THEN "search_near" ELSE "err"]
  /\ UNCHANGED <<hs, txn, session, wr, fu>>

\* cursor->search_near(cursor, &exact) and the test of exact.
hs_cursor_position_search_near(fail) ==
  /\ pos.pc = "search_near"
  /\ \/ /\ fail
        /\ pos' = [pos EXCEPT !.ret = EIO, !.ckey = NoKey, !.pc = "err",
                               !.seen = DOMAIN hs]
     \/ /\ ~fail
        /\ \E o \in SearchNearOutcomes(VisibleKeys(hs, session.isolation), pos.ckey) :
             pos' = [pos EXCEPT
                       !.ret = o[1], !.exact = o[2], !.ckey = o[3],
                       !.seen = DOMAIN hs,
                       !.pc = IF o[1] = 0 /\ StepBack(o[2]) THEN "prev" ELSE "err"]
  /\ UNCHANGED <<hs, txn, session, wr, fu>>

\* One iteration of the backward loop: cursor->prev, then the comparison of
\* the raw key at the cursor with the saved search key.
hs_cursor_position_prev(prev_fail, cmp_ret) ==
  /\ pos.pc = "prev"
  /\ LET o == IF prev_fail THEN <<EIO, NoKey>>
              ELSE PrevOutcome(VisibleKeys(hs, session.isolation), pos.ckey)
     IN IF o[1] # 0
          THEN pos' = [pos EXCEPT !.ret = o[1], !.ckey = NoKey, !.pc = "err"]
          ELSE IF cmp_ret # 0
            THEN pos' = [pos EXCEPT !.ret = cmp_ret, !.ckey = o[2], !.skips = @ + 1,
                                    !.pc = "err"]
            ELSE pos' = [pos EXCEPT
                           !.ret = 0, !.ckey = o[2], !.skips = @ + 1,
                           !.pc = IF LoopBreak(wt_compare(o[2], pos.srch_key))
                                    THEN "err" ELSE "prev"]
  /\ UNCHANGED <<hs, txn, session, wr, fu>>

\* err: the scratch buffer is released if the call allocated it.
ReleasesSearchKeyAlways(user) == TRUE
ReleasesSearchKey(user) == ~user

hs_cursor_position_err ==
  /\ pos.pc = "err"
  /\ pos' = [pos EXCEPT
               !.scr = IF ReleasesSearchKey(pos.user) /\ ~pos.user THEN 0 ELSE pos.scr,
               !.freed = IF ~ReleasesSearchKey(pos.user) THEN "none"
                         ELSE IF pos.user THEN "user" ELSE "own",
               !.pc = "ret"]
  /\ UNCHANGED <<hs, txn, session, wr, fu>>

\* The scoping macros restore the isolation level and the tree on the way out.
SessionLeft(saved, current) == current
SessionRestored(saved, current) == saved

hs_cursor_position_return ==
  /\ pos.pc = "ret"
  /\ session' = SessionRestored([isolation |-> pos.saved_iso, btree |-> pos.saved_bt],
                                session)
  /\ pos' = [pos EXCEPT !.pc = "done"]
  /\ UNCHANGED <<hs, txn, wr, fu>>

\* The caller takes the result; the cursor is free for the next call.
hs_cursor_position_next_call ==
  /\ pos.pc = "done"
  /\ pos' = PosIdle
  /\ UNCHANGED <<hs, txn, session, wr, fu>>

(***************************************************************************)
(* __wt_hs_row_search and __wt_hs_modify.                                  *)
(***************************************************************************)
\* The writer's cursor: ref tells whether a leaf page is pinned, compare and
\* slot are the result of the last search. The other fields record the last
\* call of __wt_hs_row_search: whether a page was pinned on entry, what the
\* search of that page reported, whether its result was kept, the number of
\* searches from the root, the resets (line 44 and the err label) and the
\* step that failed.
NoReport == <<0, FALSE, 0, 0, 0>>

WrIdle(ref, txn_ops) ==
  [pc |-> "idle", key |-> NoKey, ref |-> ref, compare |-> 0, slot |-> 0,
   ret |-> 0, exclusive |-> FALSE, txn_ops |-> txn_ops,
   calls |-> 0, had_ref |-> FALSE, leaf_in |-> NoReport, leaf_used |-> FALSE,
   fulls |-> 0, reset_mid |-> FALSE, reset_err |-> FALSE, failed |-> "none"]

\* The pinned page's result is kept if it is an exact match or a slot other
\* than the page's boundary slots.
LeafResultAlways(leaf_found, compare, slot, entries) == leaf_found
LeafResultUsable(leaf_found, compare, slot, entries) ==
  leaf_found /\ ~(compare # 0 /\ (slot = 0 \/ slot = entries - 1))

\* What a search of the tree reports for a key: 0 on an exact match.
ExactOr(store, key, compare) == IF key \in DOMAIN store THEN 0 ELSE compare

\* What a search reports: <<ret, leaf_found, compare, slot, entries of the page>>.
SearchReports ==
  {r \in {0, EIO} \X BOOLEAN \X {-1, 1} \X (0..MaxEntries - 1) \X (1..MaxEntries) :
     r[4] < r[5]}

\* The whole of __wt_hs_row_search. leaf is what the search of the pinned
\* page reports, full what the search from the root reports, kv_ret the
\* result of returning the key and the value.
wt_hs_row_search(srch_key, insert, leaf, full, kv_ret) ==
  /\ wr.pc = "idle"
  /\ LET has_ref == wr.ref
         leaf_ret == IF has_ref THEN leaf[1] ELSE 0
         leaf_cmp == ExactOr(hs, srch_key, leaf[3])
         leaf_found == has_ref /\ leaf_ret = 0
                        /\ LeafResultUsable(leaf[2], leaf_cmp, leaf[4], leaf[5])
         ret2 == IF leaf_found THEN 0 ELSE full[1]
         compare2 == IF leaf_found THEN leaf_cmp ELSE ExactOr(hs, srch_key, full[3])
         slot2 == IF leaf_found THEN leaf[4] ELSE full[4]
         ret3 == IF ret2 = 0 /\ ~insert THEN kv_ret ELSE ret2
         \* the call as far as the search of the pinned page
         entered == [wr EXCEPT !.calls = 1, !.had_ref = has_ref,
                              !.leaf_in = IF has_ref
                                            THEN <<leaf[1], leaf[2], leaf_cmp, leaf[4], leaf[5]>>
                                            ELSE NoReport,
                              !.leaf_used = leaf_found, !.fulls = 0,
                              !.reset_mid = FALSE, !.reset_err = FALSE,
                              !.failed = "none", !.key = NoKey]
         \* if (!leaf_found) hs_cursor->reset, inside if (hs_cbt->ref != NULL)
         searched == [entered EXCEPT !.reset_mid = has_ref /\ ~leaf_found,
                                     !.ref = IF has_ref /\ ~leaf_found THEN FALSE ELSE @,
                                     !.fulls = IF leaf_found THEN 0 ELSE 1]
     IN IF leaf_ret # 0
          \* WT_RET(ret): the error of the pinned page's search is returned
          THEN wr' = [entered EXCEPT !.ret = leaf_ret, !.failed = "leaf"]
          ELSE IF ret2 # 0
            \* the search from the root failed: return (ret)
            THEN wr' = [searched EXCEPT !.ret = ret2, !.failed = "full"]
            ELSE IF ret3 # 0
              \* err: __cursor_reset
              THEN wr' = [searched EXCEPT !.ret = ret3, !.ref = FALSE,
                                          !.reset_err = TRUE, !.failed = "kv"]
              ELSE wr' = [searched EXCEPT !.ret = 0, !.ref = TRUE, !.compare = compare2,
                                          !.slot = slot2, !.key = srch_key,
                                          !.pc = IF insert THEN "positioned" ELSE "idle"]
  /\ UNCHANGED <<hs, txn, session, pos, fu>>

\* The last argument of __wt_row_modify: exclusive access to the page.
ModifyExclusiveTrue == TRUE
ModifyExclusive == FALSE

\* The update written: a record with the transaction id of its writer.
HsUpdate(type, data, ts) ==
  [stop_ts |-> ts, durable_ts |-> ts, type |-> type, data |-> data, txnid |-> WriterTxn]

\* __wt_hs_modify: the update goes straight into the structure at the key
\* loaded on the cursor; no operation is handed to the transaction.
\* The operations the transaction holds after the write: none is added.
TxnOpsLogged(n) == n + 1
TxnOpsAfterModify(n) == n

wt_hs_modify(hs_upd, modify_ret) ==
  /\ wr.pc = "positioned"
  /\ Cardinality(DOMAIN hs) < MaxInserts \/ wr.key \in DOMAIN hs
  /\ IF modify_ret = 0
       THEN hs' = [e \in DOMAIN hs \cup {wr.key} |-> IF e = wr.key THEN hs_upd ELSE hs[e]]
       ELSE hs' = hs
  /\ wr' = [WrIdle(wr.ref, TxnOpsAfterModify(wr.txn_ops)) EXCEPT
              !.ret = modify_ret, !.exclusive = ModifyExclusive]
  \* a search in progress has been raced by this insertion
  /\ pos' = [pos EXCEPT !.raced = @ \/ (modify_ret = 0 /\ pos.pc \in {"search_near", "prev"}
                                          /\ wr.key \notin DOMAIN hs)]
  /\ UNCHANGED <<txn, session, fu>>

\* The writers' transaction commits, inside or after the reader's snapshot.
txn_commit(state) ==
  /\ txn = "uncommitted"
  /\ state # "uncommitted"
  /\ txn' = state
  /\ UNCHANGED <<hs, session, pos, wr, fu>>

(***************************************************************************)
(* The collaborators of __wt_hs_find_upd.                                  *)
(***************************************************************************)
\* A modify is packed as <<offset, size>> followed by the replacement bytes.
\* Applying it replaces size bytes at offset, padding a shorter value.
RECURSIVE Zeroes(_)
Zeroes(n) == IF n <= 0 THEN <<>> ELSE <<0>> \o Zeroes(n - 1)

wt_modify_apply_item(value, modify) ==
  LET off == modify[1]
      size == modify[2]
      data == SubSeq(modify, 3, Len(modify))
      padded == value \o Zeroes(off - Len(value))
  IN SubSeq(padded, 1, off) \o data \o SubSeq(padded, off + size + 1, Len(padded))

\* The history store cursor is bound to the record of the key it was given.
SameRecord(e, btree_id, key) == e[1] = btree_id /\ e[2] = key

\* __wt_hs_cursor_search_near_before: the newest entry of the record at or
\* before the timestamp, or NoKey if the record has none.
hs_cursor_search_near_before(store, btree_id, key, timestamp) ==
  LET own == {e \in DOMAIN store : SameRecord(e, btree_id, key) /\ e[3] <= timestamp}
  IN IF own = {} THEN NoKey
     ELSE CHOOSE e \in own : \A f \in own : wt_compare(Raw(f), Raw(e)) <= 0

\* hs_cursor->next: the entry that follows in storage order, or NoKey if it
\* is not an entry of the same record.
hs_cursor_next(store, at) ==
  LET after == Above(DOMAIN store, Raw(at))
  IN IF after = {} THEN NoKey
     ELSE IF SameRecord(Least(after), at[1], at[2]) THEN Least(after) ELSE NoKey

\* hs_cursor->prev: the entry that precedes in storage order, or NoKey if it
\* is not an entry of the same record.
hs_cursor_prev(store, at) ==
  LET before == Below(DOMAIN store, Raw(at))
  IN IF before = {} THEN NoKey
     ELSE IF SameRecord(Greatest(before), at[1], at[2]) THEN Greatest(before) ELSE NoKey

(***************************************************************************)
(* __wt_hs_find_upd.                                                       *)
(***************************************************************************)
\* The record the calls modelled here resolve, and the caller's format.
FindRecord == <<1, <<2>>>>

\* What the caller passes in upd_value: a cleared structure, or one that still
\* holds the result of an earlier read.
StaleBuf == <<9>>
UpdValues ==
  {[buf |-> <<>>, type |-> WT_UPDATE_INVALID, durable_start_ts |-> 0, start_txn |-> 1],
   [buf |-> StaleBuf, type |-> WT_UPDATE_STANDARD, durable_start_ts |-> 0, start_txn |-> 1]}

FuIdle ==
  [pc |-> "idle",
   \* arguments and session state
   btree_id |-> 0, key |-> NoKey, session_read_ts |-> 0, skip_buf |-> FALSE,
   on_disk_arg |-> <<>>, upd_arg |-> CHOOSE u \in UpdValues : u.buf = <<>>,
   \* the caller's buffers
   upd_value |-> CHOOSE u \in UpdValues : u.buf = <<>>, on_disk_buf |-> <<>>,
   \* locals
   hs_cursor |-> "null", at |-> NoKey, read_committed |-> FALSE,
   read_timestamp |-> 0, hs_value |-> "null", orig_hs_value_buf |-> "null",
   scratch |-> <<>>, mod_upd |-> <<>>, modifies |-> <<>>,
   upd_type |-> WT_UPDATE_INVALID, durable_timestamp |-> 0, upd_found |-> FALSE,
   ret |-> 0,
   \* resources held: scratch buffers, update nodes, the vector's own memory
   scr |-> 0, nodes |-> 0, vector |-> FALSE,
   \* history of the call
   first |-> NoKey, walked |-> <<>>, applied |-> <<>>, nexts |-> 0,
   fellback |-> FALSE, fault |-> "none", close_fault |-> FALSE,
   lookups |-> 0, hits |-> 0, misses |-> 0, squashes |-> 0,
   \* the scratch buffers the call allocated, and the buffers it released
   allocs |-> 0, freed |-> <<>>,
   prev |-> <<>>]

\* The effective read timestamp: a reader without a timestamp reads the
\* newest version.
ReadTimestampAsIs(ts) == ts
ReadTimestamp(ts) == IF ts = WT_TS_NONE THEN WT_TS_MAX ELSE ts

\* The content of the buffer hs_value points to.
HsValue(f) ==
  IF f.hs_value = "scratch" THEN f.scratch
  ELSE IF f.hs_value = "on_disk" THEN f.on_disk_buf
  ELSE <<>>

\* A step failed: WT_ERR records the error and jumps to the err label.
Fail(f, step, ret) == [f EXCEPT !.ret = ret, !.fault = step, !.pc = "cleanup"]

\* Lines 209-231: initialisation, the column-store key, the cursor.
FindUpdEnter(f, btree_id, key, recno, read_ts, upd, on_disk, open_ret) ==
  LET g == [f EXCEPT
              !.btree_id = btree_id,
              !.key = IF key = NoKey THEN <<recno>> ELSE key,
              !.session_read_ts = read_ts, !.skip_buf = upd.skip_buf,
              !.on_disk_arg = on_disk, !.on_disk_buf = on_disk,
              !.upd_arg = upd.value, !.upd_value = upd.value,
              !.lookups = @ + 1]
  IN IF open_ret # 0 THEN Fail(g, "open", open_ret)
     ELSE [g EXCEPT !.hs_cursor = "open", !.pc = "position"]

wt_hs_find_upd_enter(btree_id, key, recno, read_ts, upd, on_disk, open_ret) ==
  /\ fu.pc = "idle"
  /\ (key = NoKey) # (recno = 0)
  /\ fu' = FindUpdEnter(fu, btree_id, key, recno, read_ts, upd, on_disk, open_ret)
  /\ UNCHANGED <<hs, txn, session, pos, wr>>

\* Lines 242-250: the effective timestamp, the key, the search; not-found
\* is no error: ret = 0 and the call goes to done.
NotFoundKept(ret) == ret
NotFoundIsDone(ret) == IF ret = WT_NOTFOUND THEN 0 ELSE ret

wt_hs_find_upd_position(search_fail) ==
  /\ fu.pc = "position"
  /\ LET ts == ReadTimestamp(fu.session_read_ts)
         at == hs_cursor_search_near_before(hs, fu.btree_id, fu.key, ts)
         f == [fu EXCEPT !.read_timestamp = ts]
     IN IF search_fail THEN fu' = Fail(f, "position", EIO)
        ELSE IF at = NoKey
          THEN fu' = [f EXCEPT !.ret = NotFoundIsDone(WT_NOTFOUND), !.pc = "cleanup"]
          ELSE fu' = [f EXCEPT !.ret = 0, !.at = at, !.first = at, !.pc = "read"]
  /\ UNCHANGED <<hs, txn, session, pos, wr>>

\* Whether the delta chain is walked for an update of this type.
WalkAlways(skip_buf, upd_type) == upd_type = WT_UPDATE_MODIFY
Walk(skip_buf, upd_type) == ~skip_buf /\ upd_type = WT_UPDATE_MODIFY

\* Lines 253-274: the scratch buffer, the record at the cursor, skip_buf.
wt_hs_find_upd_read(alloc_ret, get_ret) ==
  /\ fu.pc = "read"
  /\ IF alloc_ret # 0 THEN fu' = Fail(fu, "scr_alloc", alloc_ret)
     ELSE LET f == [fu EXCEPT !.hs_value = "scratch", !.scr = @ + 1, !.allocs = @ + 1]
          IN IF get_ret # 0 THEN fu' = Fail(f, "get_value", get_ret)
             ELSE fu' = [f EXCEPT
                           !.scratch = hs[fu.at].data,
                           !.durable_timestamp = hs[fu.at].durable_ts,
                           !.upd_type = hs[fu.at].type,
                           !.upd_found = TRUE,
                           !.read_committed = Walk(fu.skip_buf, hs[fu.at].type),
                           !.pc = IF Walk(fu.skip_buf, hs[fu.at].type) THEN "push"
                                  ELSE IF fu.skip_buf THEN "skip_buf"
                                  ELSE "copy"]
  /\ UNCHANGED <<hs, txn, session, pos, wr>>

\* Lines 287-289: the modify at the cursor is copied into an update, which
\* is pushed onto the vector.
VectorPushFront(modifies, upd) == <<upd>> \o modifies
VectorPush(modifies, upd) == Append(modifies, upd)

wt_hs_find_upd_push(alloc_ret, push_ret) ==
  /\ fu.pc = "push"
  /\ IF alloc_ret # 0 THEN fu' = Fail(fu, "upd_alloc", alloc_ret)
     ELSE LET f == [fu EXCEPT !.mod_upd = HsValue(fu), !.nodes = @ + 1]
          IN IF push_ret # 0 THEN fu' = Fail(f, "push", push_ret)
             ELSE fu' = [f EXCEPT
                           !.modifies = VectorPush(@, HsValue(fu)), !.vector = TRUE,
                           !.walked = Append(@, fu.at),
                           !.mod_upd = <<>>, !.pc = "next"]
  /\ UNCHANGED <<hs, txn, session, pos, wr>>

\* The buffer hs_value points to once the cursor has run out of entries.
FallbackValueScratch == "scratch"
FallbackValue == "on_disk"

\* The type the walk goes on with once the cursor has run out of entries.
FallbackTypeModify == WT_UPDATE_MODIFY
FallbackType == WT_UPDATE_STANDARD

\* The advance of the walk: hs_cursor->next.
WalkAdvancePrev(store, at) == hs_cursor_prev(store, at)
WalkAdvance(store, at) == hs_cursor_next(store, at)

\* The durable timestamp of the call after a further record is read: that
\* record's goes to durable_timestamp_tmp.
WalkDurableOverwritten(durable_timestamp, durable_timestamp_tmp) == durable_timestamp_tmp
WalkDurable(durable_timestamp, durable_timestamp_tmp) == durable_timestamp

\* while (upd_type == WT_UPDATE_MODIFY): whether the walk goes on.
WalkStopsAtOnce(upd_type) == FALSE
WalkGoesOn(upd_type) == upd_type = WT_UPDATE_MODIFY

\* Lines 296-314: the cursor advances; with nothing left the on-disk value
\* becomes the base, otherwise the next record is read.
wt_hs_find_upd_next(next_fail, get_ret) ==
  /\ fu.pc = "next"
  /\ LET nxt == WalkAdvance(hs, fu.at)
         f == [fu EXCEPT !.nexts = @ + 1]
     IN IF next_fail THEN fu' = Fail(f, "next", EIO)
        ELSE IF nxt = NoKey
          THEN fu' = [f EXCEPT
                        !.ret = 0, !.fellback = TRUE, !.at = NoKey,
                        !.orig_hs_value_buf = f.hs_value, !.hs_value = FallbackValue,
                        !.upd_type = FallbackType, !.pc = "apply"]
          ELSE IF get_ret # 0 THEN fu' = Fail([f EXCEPT !.at = nxt], "get_value", get_ret)
          ELSE fu' = [f EXCEPT
                        !.ret = 0, !.at = nxt,
                        !.scratch = hs[nxt].data, !.upd_type = hs[nxt].type,
                        !.durable_timestamp = WalkDurable(@, hs[nxt].durable_ts),
                        !.pc = IF WalkGoesOn(hs[nxt].type) THEN "push" ELSE "apply"]
  /\ UNCHANGED <<hs, txn, session, pos, wr>>

\* The modify the vector gives out: the one pushed last.
PopOldest(modifies) == 1
PopIndex(modifies) == Len(modifies)

Without(seq, i) == SubSeq(seq, 1, i - 1) \o SubSeq(seq, i + 1, Len(seq))

\* Lines 316-321: one modify is popped, applied to the base and freed.
wt_hs_find_upd_apply(apply_ret) ==
  /\ fu.pc = "apply"
  /\ IF fu.modifies = <<>>
       THEN fu' = [fu EXCEPT !.squashes = @ + 1, !.pc = "copy"]
       ELSE LET i == PopIndex(fu.modifies)
                f == [fu EXCEPT !.mod_upd = fu.modifies[i],
                                !.modifies = Without(fu.modifies, i)]
                value == wt_modify_apply_item(HsValue(fu), fu.modifies[i])
            IN IF apply_ret # 0 THEN fu' = Fail(f, "apply", apply_ret)
               ELSE fu' = [f EXCEPT
                             !.ret = 0,
                             !.scratch = IF fu.hs_value = "scratch" THEN value ELSE @,
                             !.on_disk_buf = IF fu.hs_value = "on_disk" THEN value ELSE @,
                             !.applied = Append(@, fu.modifies[i]),
                             !.mod_upd = <<>>, !.nodes = @ - 1]
  /\ UNCHANGED <<hs, txn, session, pos, wr>>

\* Lines 329-333: the value is copied into the result unless skip_buf sent
\* the call to the label behind the copy; then the metadata is set.
wt_hs_find_upd_result(copy_ret) ==
  /\ fu.pc \in {"copy", "skip_buf"}
  /\ IF fu.pc = "copy" /\ copy_ret # 0 THEN fu' = Fail(fu, "buf_set", copy_ret)
     ELSE fu' = [fu EXCEPT
                   !.ret = 0,
                   !.upd_value = [buf |-> IF fu.pc = "copy" THEN HsValue(fu) ELSE @.buf,
                                  type |-> fu.upd_type,
                                  durable_start_ts |-> fu.durable_timestamp,
                                  start_txn |-> WT_TXN_NONE],
                   !.pc = "cleanup"]
  /\ UNCHANGED <<hs, txn, session, pos, wr>>

\* The update nodes left once the one in hand and those of the vector are freed.
NodesLeftKeepInHand(f) == f.nodes - Len(f.modifies)
NodesLeft(f) == f.nodes - (IF f.mod_upd # <<>> THEN 1 ELSE 0) - Len(f.modifies)

\* The scratch buffers left once the call's own buffer is released.
ScratchLeftFreeValue(f) ==
  IF f.hs_value = "scratch" THEN f.scr - 1 ELSE f.scr
ScratchLeft(f) ==
  IF f.orig_hs_value_buf # "null" THEN f.scr - 1
  ELSE IF f.hs_value = "scratch" THEN f.scr - 1
  ELSE f.scr

\* The buffer handed to __wt_scr_free: the scratch buffer kept aside by the
\* fallback if there is one, else the one hs_value points to.
ReleasedValueBuf(f) == f.hs_value
ReleasedBuf(f) ==
  IF f.orig_hs_value_buf # "null" THEN f.orig_hs_value_buf ELSE f.hs_value

\* Lines 335-348 (done, err): the buffer, the update in hand, the vector.
wt_hs_find_upd_cleanup ==
  /\ fu.pc = "cleanup"
  /\ fu' = [fu EXCEPT
               !.scr = IF ReleasedBuf(fu) = "scratch" THEN ScratchLeft(fu) ELSE @,
               !.freed = IF ReleasedBuf(fu) # "null" THEN Append(@, ReleasedBuf(fu)) ELSE @,
               !.hs_value = IF fu.orig_hs_value_buf # "null" THEN @ ELSE "null",
               !.orig_hs_value_buf = "null",
               !.nodes = NodesLeft(fu),
               !.mod_upd = <<>>, !.modifies = <<>>, !.vector = FALSE,
               !.pc = "finish"]
  /\ UNCHANGED <<hs, txn, session, pos, wr>>

\* The type of the result once the status of the call is known.
FinalTypeUnmarked(f) == f.upd_value.type
FinalType(f) ==
  IF f.ret # 0 \/ ~f.upd_found THEN WT_UPDATE_INVALID ELSE f.upd_value.type

\* WT_TRET: the first error of the call is kept.
Tret(ret, r) ==
  IF r # 0 /\ (ret = 0 \/ ret = WT_NOTFOUND) THEN r ELSE ret

\* Lines 350-368: the statistics, the invalid mark, the close of the cursor.
wt_hs_find_upd_finish(close_ret) ==
  /\ fu.pc = "finish"
  /\ fu' = [fu EXCEPT
               !.upd_value.type = FinalType(fu),
               !.hits = IF fu.ret = 0 /\ fu.upd_found THEN @ + 1 ELSE @,
               !.misses = IF fu.ret = 0 /\ ~fu.upd_found THEN @ + 1 ELSE @,
               !.hs_cursor = IF @ = "open" THEN "closed" ELSE @,
               !.ret = IF fu.hs_cursor = "open" THEN Tret(fu.ret, close_ret) ELSE fu.ret,
               !.close_fault = fu.hs_cursor = "open" /\ close_ret # 0,
               !.pc = "done"]
  /\ UNCHANGED <<hs, txn, session, pos, wr>>

\* What the caller gets from a call: the status and the result.
Outcome(f) ==
  [ret |-> f.ret, upd_value |-> f.upd_value, fault |-> f.fault,
   close_fault |-> f.close_fault, read_ts |-> f.session_read_ts]

\* No collaborator failed during the call.
NoFault(f) == f.fault = "none" /\ ~f.close_fault

\* The caller repeats a call made without a read timestamp with the largest
\* timestamp, and one made with the largest timestamp without any.
wt_hs_find_upd_call_again(open_ret) ==
  /\ fu.pc = "done"
  /\ fu.prev = <<>>
  /\ NoFault(fu)
  /\ fu.session_read_ts \in {WT_TS_NONE, WT_TS_MAX}
  /\ fu' = FindUpdEnter([FuIdle EXCEPT !.prev = <<Outcome(fu)>>],
                        fu.btree_id, fu.key, 0,
                        IF fu.session_read_ts = WT_TS_NONE THEN WT_TS_MAX ELSE WT_TS_NONE,
                        [value |-> fu.upd_arg, skip_buf |-> fu.skip_buf],
                        fu.on_disk_arg, open_ret)
  /\ UNCHANGED <<hs, txn, session, pos, wr>>

(***************************************************************************)
(* Specifications.                                                         *)
(***************************************************************************)
Errors == {0, EIO}

\* A record put into the store before the calls modelled here.
OldRecord(e) ==
  [stop_ts |-> e[3], durable_ts |-> e[3], type |-> WT_UPDATE_STANDARD,
   data |-> <<>>, txnid |-> WT_TXN_NONE]

\* The stores of at most MaxStore entries.
Stores == {S \in SUBSET HistoryKeys : Cardinality(S) <= MaxStore}

\* The isolation level and the tree of the session that makes the call.
Sessions ==
  {[isolation |-> WT_ISO_SNAPSHOT, btree |-> DATA_BTREE],
   [isolation |-> WT_ISO_READ_COMMITTED, btree |-> HS_BTREE],
   [isolation |-> WT_ISO_READ_UNCOMMITTED, btree |-> DATA_BTREE]}

\* The search of one key in a store at rest: no writer is at work.
InitPos ==
  /\ \E S \in Stores : hs = [e \in S |-> OldRecord(e)]
  /\ txn = "committed"
  /\ session \in Sessions
  /\ pos = PosIdle
  /\ wr = WrIdle(FALSE, 0)
  /\ fu = FuIdle

NextPos ==
  \/ \E rk \in Records, t \in 1..MaxTs, u \in BOOLEAN, r \in Errors :
       hs_cursor_position_enter(rk[1], rk[2], t, u, r)
  \/ \E r \in Errors : hs_cursor_position_set_key(r)
  \/ \E f \in BOOLEAN : hs_cursor_position_search_near(f)
  \/ \E f \in BOOLEAN, r \in Errors : hs_cursor_position_prev(f, r)
  \/ hs_cursor_position_err
  \/ hs_cursor_position_return
  \/ hs_cursor_position_next_call

SpecPos == InitPos /\ [][NextPos]_vars

\* The key searched, and the keys the writers insert while a reader searches:
\* every version of the searched record and one entry of the record behind it.
ReaderKey == <<2>>
WriterKeys ==
  {e \in HistoryKeys : e[1] = 1 /\ e[4] = 0 /\ (e[2] = ReaderKey \/ e[3] = 1)}

\* What the writers' searches report, as pairs of the pinned page's report
\* and the report of the search from the root: a slot inside the page, a
\* slot on its boundary, a key that is not on the pinned page, an error of
\* either search.
WriterReports ==
  LET ok == <<0, FALSE, 1, 0, MaxEntries>>
  IN {<<<<0, TRUE, 1, 1, MaxEntries>>, ok>>, <<<<0, TRUE, 1, 0, MaxEntries>>, ok>>,
      <<ok, ok>>, <<ok, <<EIO, FALSE, 1, 0, MaxEntries>>>>,
      <<<<EIO, FALSE, 1, 0, MaxEntries>>, ok>>}

Init ==
  /\ hs = [e \in {} |-> OldRecord(e)]
  /\ txn = "uncommitted"
  /\ session = [isolation |-> WT_ISO_SNAPSHOT, btree |-> DATA_BTREE]
  /\ pos = PosIdle
  /\ wr = WrIdle(FALSE, 0)
  /\ fu = FuIdle

Next ==
  \/ \E t \in 1..MaxTs : hs_cursor_position_enter(1, ReaderKey, t, FALSE, 0)
  \/ hs_cursor_position_set_key(0)
  \/ hs_cursor_position_search_near(FALSE)
  \/ hs_cursor_position_prev(FALSE, 0)
  \/ hs_cursor_position_err
  \/ hs_cursor_position_return
  \/ hs_cursor_position_next_call
  \/ \E e \in WriterKeys, report \in WriterReports :
       wt_hs_row_search(e, TRUE, report[1], report[2], 0)
  \/ \E r \in Errors : wt_hs_modify(HsUpdate(WT_UPDATE_STANDARD, <<>>, wr.key[3]), r)
  \/ \E st \in TxnStates : txn_commit(st)

Spec == Init /\ [][Next]_vars

\* The reader's call racing with the writers, every step of it fallible. The
\* writers insert at most MaxInserts entries; the reader's thread runs its
\* code to the end of the call. The reader searches the oldest timestamp: the
\* insertion of any newer version lands above its search key.
ReaderStep ==
  \/ \E r \in Errors : hs_cursor_position_set_key(r)
  \/ \E f \in BOOLEAN : hs_cursor_position_search_near(f)
  \/ \E f \in BOOLEAN, r \in Errors : hs_cursor_position_prev(f, r)
  \/ hs_cursor_position_err
  \/ hs_cursor_position_return

\* The report of a search that finds no exact match off the pinned page.
PlainReport == <<0, FALSE, 1, 0, MaxEntries>>

WriterStep ==
  \/ \E e \in WriterKeys : wt_hs_row_search(e, TRUE, PlainReport, PlainReport, 0)
  \/ wt_hs_modify(HsUpdate(WT_UPDATE_STANDARD, <<>>, wr.key[3]), 0)

NextLive ==
  \/ \E r \in Errors : hs_cursor_position_enter(1, ReaderKey, 1, FALSE, r)
  \/ ReaderStep
  \/ hs_cursor_position_next_call
  \/ WriterStep

SpecLive == Init /\ [][NextLive]_vars /\ WF_vars(ReaderStep)

\* The searches of a cursor that may or may not carry a pinned page: what the
\* search from the root reports has no leaf_found and no page of its own.
FullReports == {r \in SearchReports : ~r[2] /\ r[3] = 1 /\ r[4] = 0 /\ r[5] = MaxEntries}
\* What the search of the pinned page reports: every slot of every page size,
\* found or not; of a failed search only the error counts.
LeafReports ==
  {r \in SearchReports : r[3] = 1 /\ (r[1] = EIO => (~r[2] /\ r[4] = 0 /\ r[5] = MaxEntries))}

\* The keys searched: two versions of one record, in the store or not.
SearchKeys == {e \in WriterKeys : e[2] = ReaderKey /\ e[3] <= 2}

InitSearch ==
  /\ \E S \in SUBSET SearchKeys : Cardinality(S) <= 1 /\ hs = [e \in S |-> OldRecord(e)]
  /\ txn = "committed"
  /\ session = [isolation |-> WT_ISO_SNAPSHOT, btree |-> DATA_BTREE]
  /\ pos = PosIdle
  /\ \E ref \in BOOLEAN : wr = WrIdle(ref, 0)
  /\ fu = FuIdle

NextSearch ==
  \/ \E e \in SearchKeys, insert \in BOOLEAN, leaf \in LeafReports, full \in FullReports,
        r \in Errors :
       wt_hs_row_search(e, insert, leaf, full, r)
  \/ \E r \in Errors : wt_hs_modify(HsUpdate(WT_UPDATE_STANDARD, <<>>, wr.key[3]), r)

SpecSearch == InitSearch /\ [][NextSearch]_vars

\* The values and the modifies of the versions of the resolved record:
\* "abc"; byte 0 becomes 'x'; "!" is appended to three bytes; byte 0
\* becomes 'y'. The value on the data store's page is "gh".
Values == {<<1, 2, 3>>}
Modifies == {<<0, 1, 4>>, <<3, 0, 5>>, <<0, 1, 6>>}
OnDiskValue == <<7, 8>>

Versions ==
  {<<"none", <<>>>>} \cup ({WT_UPDATE_STANDARD} \X Values) \cup ({WT_UPDATE_MODIFY} \X Modifies)

\* An entry of another record, stored behind those of the resolved record.
OtherEntry == <<1, <<1, 1>>, 1, 0>>

VersionRecord(e, v) ==
  [stop_ts |-> e[3] + 1, durable_ts |-> e[3], type |-> v[1], data |-> v[2],
   txnid |-> WT_TXN_NONE]

\* The store at rest holds any versions of the resolved record, oldest first.
InitFind ==
  /\ \E v \in [1..MaxVersions -> Versions], others \in {{OtherEntry}} :
       hs = [e \in {<<FindRecord[1], FindRecord[2], t, 0>> :
                      t \in {u \in 1..MaxVersions : v[u][1] # "none"}} \cup others |->
               IF e \in others THEN OldRecord(e) ELSE VersionRecord(e, v[e[3]])]
  /\ txn = "committed"
  /\ session = [isolation |-> WT_ISO_SNAPSHOT, btree |-> DATA_BTREE]
  /\ pos = PosIdle
  /\ wr = WrIdle(FALSE, 0)
  /\ fu = FuIdle

ReadTimestamps == (0..MaxVersions) \cup {WT_TS_MAX}

NextFind ==
  \/ \E row \in BOOLEAN, ts \in ReadTimestamps, u \in UpdValues, skip \in BOOLEAN,
        r \in Errors :
       wt_hs_find_upd_enter(FindRecord[1],
                            IF row THEN FindRecord[2] ELSE NoKey,
                            IF row THEN 0 ELSE FindRecord[2][1],
                            ts, [value |-> u, skip_buf |-> skip], OnDiskValue, r)
  \/ \E f \in BOOLEAN : wt_hs_find_upd_position(f)
  \/ \E r1 \in Errors, r2 \in Errors : wt_hs_find_upd_read(r1, r2)
  \/ \E r1 \in Errors, r2 \in Errors : wt_hs_find_upd_push(r1, r2)
  \/ \E f \in BOOLEAN, r \in Errors : wt_hs_find_upd_next(f, r)
  \/ \E r \in Errors : wt_hs_find_upd_apply(r)
  \/ \E r \in Errors : wt_hs_find_upd_result(r)
  \/ wt_hs_find_upd_cleanup
  \/ \E r \in Errors : wt_hs_find_upd_finish(r)
  \/ \E r \in Errors : wt_hs_find_upd_call_again(r)

SpecFind == InitFind /\ [][NextFind]_vars

\* Both calls, one after the other on the same store, every step fallible:
\* searches of the resolved record with and without a buffer of the caller,
\* then the resolution.
PositionSteps ==
  \/ \E t \in 1..MaxTs, u \in BOOLEAN, r \in Errors :
       hs_cursor_position_enter(FindRecord[1], FindRecord[2], t, u, r)
  \/ ReaderStep
  \/ hs_cursor_position_next_call

NextBuffers ==
  \/ fu.pc = "idle" /\ PositionSteps
  \/ pos.pc = "idle" /\ NextFind

SpecBuffers == InitFind /\ [][NextBuffers]_vars

(***************************************************************************)
(* Claims: positioning.                                                    *)
(***************************************************************************)
\* The raw key the call in progress searches for.
PosTarget == EncodeKey(pos.btree_id, pos.key, pos.timestamp, UINT64_MAX)

\* The entries of the searched record at or before the searched timestamp.
PosOwn ==
  {e \in DOMAIN hs : e[1] = pos.btree_id /\ e[2] = pos.key /\ e[3] <= pos.timestamp}

\* e is the newest of S by (timestamp, counter).
NewestOf(e, S) ==
  e \in S /\ \A f \in S : f[3] < e[3] \/ (f[3] = e[3] /\ f[4] <= e[4])

\* The call has returned and no collaborator failed.
PosReturned == pos.pc = "done" /\ pos.ret # EIO

\* C1 as stated: with no concurrent insertion, the call leaves the cursor on
\* the newest entry of the searched record at or before the timestamp, and
\* returns not-found if and only if the record has no such entry.
C1_AsStated ==
  PosReturned =>
    /\ pos.ret = WT_NOTFOUND <=> PosOwn = {}
    /\ pos.ret = 0 => \E e \in PosOwn : NewestOf(e, PosOwn) /\ pos.ckey = Raw(e)

\* C1 amended: with no concurrent insertion, the call leaves the cursor on
\* the greatest entry of the whole store whose raw key is at or below the
\* search key, and returns not-found if and only if the store holds no entry
\* at or below the search key; when the searched record has an entry at or
\* before the timestamp, that greatest entry is the record's newest one.
C1_Positioning ==
  PosReturned =>
    LET le == AtOrBelow(DOMAIN hs, PosTarget)
    IN /\ pos.ret = WT_NOTFOUND <=> le = {}
       /\ pos.ret = 0 =>
            \E e \in le : pos.ckey = Raw(e) /\ \A f \in le : wt_compare(Raw(f), Raw(e)) <= 0
       /\ PosOwn # {} =>
            pos.ret = 0 /\ \E e \in PosOwn : NewestOf(e, PosOwn) /\ pos.ckey = Raw(e)

\* The search landed above the target and stepped back onto the newest entry
\* of the searched record, in a store that also holds another entry.
C1_Witness ==
  /\ PosReturned /\ pos.ret = 0 /\ pos.exact > 0 /\ pos.skips = 1
  /\ PosOwn # {} /\ Cardinality(DOMAIN hs) >= 2

\* C2: under every interleaving with the writers' insertions, when the call
\* returns success the raw key at the cursor compares at or below the saved
\* search key, however many backward steps that takes.
C2_FinalKeyAtOrBelowSearchKey ==
  (pos.pc \in {"err", "ret", "done"} /\ pos.ret = 0) =>
    wt_compare(pos.ckey, pos.srch_key) <= 0

\* A raced call that needed more than one backward step and succeeded.
C2_Witness ==
  pos.pc = "done" /\ pos.ret = 0 /\ pos.raced /\ pos.skips >= 2

\* C10: an entry written by __wt_hs_modify is seen by every search that
\* starts after the write, whatever the state of the writer's transaction:
\* a search that found the entry in the structure at or below its search
\* key does not return not-found and ends at or above that entry. The write
\* is made in non-exclusive mode and hands nothing to the transaction.
C10_WritesImmediatelyVisible ==
  /\ wr.exclusive = FALSE
  /\ wr.txn_ops = 0
  /\ PosReturned =>
       \A e \in pos.seen :
         wt_compare(Raw(e), PosTarget) <= 0 =>
           pos.ret = 0 /\ wt_compare(Raw(e), pos.ckey) <= 0

\* A search ended on an entry whose writer has not committed.
C10_Witness ==
  /\ PosReturned /\ pos.ret = 0 /\ txn = "uncommitted"
  /\ \E e \in pos.seen : Raw(e) = pos.ckey /\ hs[e].txnid = WriterTxn

\* C11: while the body of __wt_hs_cursor_position runs, the session reads at
\* read-uncommitted isolation and is bound to the history store tree; when
\* the call has returned, with success, not-found or the error of any step,
\* the isolation level and the tree are those the session had on entry.
C11_IsolationScoped ==
  /\ pos.pc \in {"set_key", "search_near", "prev", "err", "ret"} =>
       session.isolation = WT_ISO_READ_UNCOMMITTED /\ session.btree = HS_BTREE
  /\ pos.pc = "done" =>
       session.isolation = pos.saved_iso /\ session.btree = pos.saved_bt

\* A call entered at read-committed isolation failed in the backward loop
\* and has returned.
C11_Witness ==
  /\ pos.pc = "done" /\ pos.ret = EIO /\ pos.skips >= 1
  /\ pos.saved_iso = WT_ISO_READ_COMMITTED /\ session.isolation = WT_ISO_READ_COMMITTED

\* A call of __wt_hs_row_search has returned.
SearchReturned == wr.calls = 1

\* C12: when the cursor carries a pinned page and the search of that page
\* returns, its result is the final position if and only if the key was
\* located on the page and the match is exact or the slot is neither slot 0
\* nor slot entries - 1; otherwise the cursor is reset and one search from
\* the root is made. Without a pinned page one search from the root is made
\* and the cursor is not reset before it.
C12_CachedPageRule ==
  SearchReturned =>
    /\ (wr.had_ref /\ wr.leaf_in[1] = 0) =>
         /\ wr.leaf_used <=>
              (wr.leaf_in[2] /\ (wr.leaf_in[3] = 0
                                  \/ (wr.leaf_in[4] # 0 /\ wr.leaf_in[4] # wr.leaf_in[5] - 1)))
         /\ wr.leaf_used =>
              /\ wr.fulls = 0 /\ ~wr.reset_mid
              /\ wr.ret = 0 => (wr.compare = wr.leaf_in[3] /\ wr.slot = wr.leaf_in[4])
         /\ ~wr.leaf_used => (wr.reset_mid /\ wr.fulls = 1)
    /\ (wr.had_ref /\ wr.leaf_in[1] # 0) => ~wr.leaf_used
    /\ ~wr.had_ref => (wr.fulls = 1 /\ ~wr.reset_mid /\ ~wr.leaf_used)

\* The key was located on the pinned page, not exactly, at the page's last
\* slot: the cursor was reset and the search from the root positioned it.
C12_Witness ==
  /\ SearchReturned /\ wr.had_ref /\ wr.leaf_in[1] = 0 /\ wr.leaf_in[2]
  /\ wr.leaf_in[3] # 0 /\ wr.leaf_in[4] = wr.leaf_in[5] - 1 /\ wr.leaf_in[4] > 0
  /\ ~wr.leaf_used /\ wr.reset_mid /\ wr.fulls = 1 /\ wr.ret = 0

\* C13 as stated: the error of the failing search or of the return of the key
\* and the value is what the call returns, and whenever the call returns an
\* error the cursor was reset during the call.
C13_AsStated ==
  (SearchReturned /\ wr.failed # "none") =>
    /\ wr.ret = EIO
    /\ wr.reset_mid \/ wr.reset_err

(***************************************************************************)
(* Claims: __wt_hs_find_upd.                                               *)
(***************************************************************************)
\* The call has returned.
FindDone == fu.pc = "done"
\* The call has returned, no collaborator failed, and an entry was located.
FindFound == FindDone /\ NoFault(fu) /\ fu.first # NoKey

\* The versions of the resolved record, by timestamp (the counter is 0).
VersionAt(ts) == <<fu.btree_id, fu.key, ts, 0>>
HasVersion(ts) == VersionAt(ts) \in DOMAIN hs
TypeAt(ts) == hs[VersionAt(ts)].type
DataAt(ts) == hs[VersionAt(ts)].data

\* The timestamp of the next older and of the next newer version, 0 if none.
OlderTs(ts) ==
  IF \E u \in 1..MaxVersions : u < ts /\ HasVersion(u)
    THEN CHOOSE u \in 1..MaxVersions :
           u < ts /\ HasVersion(u) /\ \A w \in 1..MaxVersions : (w < ts /\ HasVersion(w)) => w <= u
    ELSE 0
NewerTs(ts) ==
  IF \E u \in 1..MaxVersions : u > ts /\ HasVersion(u)
    THEN CHOOSE u \in 1..MaxVersions :
           u > ts /\ HasVersion(u) /\ \A w \in 1..MaxVersions : (w > ts /\ HasVersion(w)) => w >= u
    ELSE 0

\* A Standard record is stored at or before ts with only modifies between.
RECURSIVE HasOlderBase(_)
HasOlderBase(ts) ==
  /\ ts # 0
  /\ (TypeAt(ts) = WT_UPDATE_STANDARD \/ HasOlderBase(OlderTs(ts)))

\* The value at ts if modifies build on the next older version: the base B
\* with D1, ..., Di applied.
RECURSIVE ValueFromOlder(_)
ValueFromOlder(ts) ==
  IF TypeAt(ts) = WT_UPDATE_STANDARD THEN DataAt(ts)
  ELSE wt_modify_apply_item(ValueFromOlder(OlderTs(ts)), DataAt(ts))

\* The value at ts if modifies build on the next newer version, the value on
\* the data store's page being the newest of all.
RECURSIVE ValueFromNewer(_)
ValueFromNewer(ts) ==
  IF TypeAt(ts) = WT_UPDATE_STANDARD THEN DataAt(ts)
  ELSE wt_modify_apply_item(
         IF NewerTs(ts) = 0 THEN fu.on_disk_arg ELSE ValueFromNewer(NewerTs(ts)),
         DataAt(ts))

\* The store of the scenario, its timestamps 10, 20 and 30 scaled to 1, 2
\* and 3: "abc", then byte 0 becomes 'x', then "!" is appended; the record
\* has no other version.
ScenarioStore ==
  /\ \A u \in 1..MaxVersions : HasVersion(u) => u <= 3
  /\ HasVersion(1) /\ TypeAt(1) = WT_UPDATE_STANDARD /\ DataAt(1) = <<1, 2, 3>>
  /\ HasVersion(2) /\ TypeAt(2) = WT_UPDATE_MODIFY /\ DataAt(2) = <<0, 1, 4>>
  /\ HasVersion(3) /\ TypeAt(3) = WT_UPDATE_MODIFY /\ DataAt(3) = <<3, 0, 5>>

C4_ResourcesReleased ==
  FindDone =>
    /\ fu.scr = 0
    /\ fu.nodes = 0
    /\ fu.mod_upd = <<>> /\ fu.modifies = <<>> /\ ~fu.vector
    /\ fu.hs_cursor # "open"
    /\ fu.hs_cursor = "null" <=> fu.fault = "open"

\* The application of a popped modify failed while another was still pushed.
C4_Witness ==
  FindDone /\ fu.fault = "apply" /\ Len(fu.walked) >= 2 /\ fu.applied = <<>>

\* C5: the call never returns WT_NOTFOUND: when no entry is at or before the
\* read timestamp it returns success with the result marked invalid, and when
\* the cursor runs out of entries during the walk it goes on with the
\* fallback.
C5_NotFoundNeverReturned ==
  /\ FindDone => fu.ret # WT_NOTFOUND
  /\ (FindDone /\ NoFault(fu) /\ fu.first = NoKey) =>
       fu.ret = 0 /\ fu.upd_value.type = WT_UPDATE_INVALID
  /\ (fu.fellback /\ fu.fault = "none" /\ fu.pc # "done") =>
       fu.ret = 0 /\ fu.pc \in {"apply", "copy", "cleanup", "finish"}

\* A read before the oldest version of a record that has history.
C5_Witness ==
  /\ FindDone /\ NoFault(fu) /\ fu.first = NoKey /\ fu.ret = 0
  /\ fu.read_timestamp # 0 /\ \E ts \in 1..MaxVersions : HasVersion(ts)
  /\ fu.upd_arg.type = WT_UPDATE_STANDARD

\* C6 as stated: if the call returns a non-zero status, the result's type is
\* invalid, whichever step failed (the close of the cursor included).
C6_AsStated ==
  (FindDone /\ fu.ret # 0) => fu.upd_value.type = WT_UPDATE_INVALID

\* The modifies of the entries walked, applied to a value from the one
\* pushed last down to the one pushed first.
RECURSIVE AppliedDown(_, _, _)
AppliedDown(entries, i, value) ==
  IF i = 0 THEN value
  ELSE AppliedDown(entries, i - 1, wt_modify_apply_item(value, hs[entries[i]].data))

\* C7: if the cursor runs out of entries before a Standard record is reached,
\* the caller's on-disk value is the base all collected modifies are applied
\* to, the call returns success and the result's type is Standard.
C7_Fallback ==
  (FindDone /\ NoFault(fu) /\ fu.fellback) =>
    /\ fu.ret = 0
    /\ fu.upd_value.type = WT_UPDATE_STANDARD
    /\ fu.upd_value.buf = AppliedDown(fu.walked, Len(fu.walked), fu.on_disk_arg)
    /\ Len(fu.applied) = Len(fu.walked)

\* A fallback with two modifies collected.
C7_Witness ==
  FindDone /\ NoFault(fu) /\ fu.fellback /\ Len(fu.walked) = 2 /\ fu.ret = 0

\* C8: a call made without a read timestamp and the same call made with the
\* largest timestamp return the same status and the same result.
C8_ZeroTimestamp ==
  (FindDone /\ NoFault(fu) /\ fu.prev # <<>>) =>
    /\ fu.session_read_ts # fu.prev[1].read_ts
    /\ {fu.session_read_ts, fu.prev[1].read_ts} = {WT_TS_NONE, WT_TS_MAX}
    /\ fu.ret = fu.prev[1].ret
    /\ fu.upd_value = fu.prev[1].upd_value

\* Both calls found the newest version of a record that has history.
C8_Witness ==
  /\ FindFound /\ fu.prev # <<>> /\ fu.session_read_ts = WT_TS_NONE
  /\ fu.upd_value.type = WT_UPDATE_STANDARD /\ ~fu.skip_buf

\* C9: with skip_buf set and an entry found, no modify is pushed, the cursor
\* is not advanced and no modify is applied; nothing is copied into the
\* result's buffer, which stays as the caller passed it; the type and the
\* durable start timestamp are those of the located record; the call returns
\* success.
C9_SkipPayload ==
  /\ fu.skip_buf => fu.walked = <<>> /\ fu.nexts = 0 /\ fu.applied = <<>>
  /\ (FindFound /\ fu.skip_buf) =>
       /\ fu.ret = 0
       /\ fu.upd_value.buf = fu.upd_arg.buf
       /\ fu.upd_value.type = hs[fu.first].type
       /\ fu.upd_value.durable_start_ts = hs[fu.first].durable_ts

\* A modify was located with skip_buf set and the result's buffer is empty.
C9_Witness ==
  /\ FindFound /\ fu.skip_buf /\ hs[fu.first].type = WT_UPDATE_MODIFY
  /\ fu.upd_value.buf = <<>> /\ fu.upd_value.type = WT_UPDATE_MODIFY

\* e is an entry of the record of f with a greater (timestamp, counter).
NewerEntry(e, f) ==
  SameRecord(e, f[1], f[2]) /\ (e[3] > f[3] \/ (e[3] = f[3] /\ e[4] > f[4]))

\* The walk is over: the squashing has begun.
WalkEnded == fu.pc = "apply"

Pushed == [i \in 1..Len(fu.walked) |-> hs[fu.walked[i]].data]

\* C15: the deltas are applied in the reverse of the order in which they
\* were pushed, the one pushed last first and the one of the record first
\* located last; none is applied before the walk has ended with the base
\* known, and once the squashing is over each has been applied exactly once.
C15_LastInFirstOut ==
  /\ fu.pc \in {"position", "read", "push", "next"} => fu.applied = <<>>
  /\ Len(fu.applied) <= Len(Pushed)
  /\ \A i \in 1..Len(fu.applied) : fu.applied[i] = Pushed[Len(Pushed) - i + 1]
  /\ WalkEnded => Len(fu.applied) + Len(fu.modifies) = Len(Pushed)
  /\ (fu.pc \in {"copy", "finish", "done"} /\ fu.fault = "none") =>
       Len(fu.applied) = Len(Pushed)

\* Three different deltas were pushed and all three were applied.
C15_Witness ==
  /\ FindDone /\ NoFault(fu) /\ Len(fu.applied) = 3
  /\ fu.applied[1] # fu.applied[2] /\ fu.applied[2] # fu.applied[3]
  /\ fu.applied[1] # fu.applied[3] /\ fu.applied[3] = hs[fu.first].data

\* C16: on every successful call that found an entry the result's durable
\* start timestamp is the durable timestamp of the record first located,
\* whatever further records the walk has read, and its start transaction is
\* WT_TXN_NONE.
C16_Metadata ==
  FindFound =>
    /\ fu.ret = 0
    /\ fu.upd_value.durable_start_ts = hs[fu.first].durable_ts
    /\ fu.upd_value.start_txn = WT_TXN_NONE

\* The walk read two further records, the last with another durable
\* timestamp, into a result that came in with a start transaction.
C16_Witness ==
  /\ FindFound /\ fu.nexts = 2 /\ ~fu.fellback
  /\ hs[fu.at].durable_ts # hs[fu.first].durable_ts
  /\ fu.upd_arg.start_txn # WT_TXN_NONE
  /\ fu.upd_value.durable_start_ts = hs[fu.first].durable_ts

(***************************************************************************)
(* Claims: the backward loop of __hs_cursor_position_int.                  *)
(***************************************************************************)
\* The search landed above the search key: the backward loop was entered.
LoopEntered == pos.pc \in {"prev", "err", "ret", "done"} /\ StepBack(pos.exact)

\* The three ways out of the loop, and the test that keeps it going.
LoopExits ==
  /\ (LoopEntered /\ pos.pc # "prev") =>
       \/ pos.ret = 0 /\ pos.ckey # NoKey /\ wt_compare(pos.ckey, pos.srch_key) <= 0
       \/ pos.ret = WT_NOTFOUND /\ pos.ckey = NoKey
       \/ pos.ret = EIO
  /\ pos.pc = "prev" => (pos.ret = 0 /\ wt_compare(pos.ckey, pos.srch_key) > 0)

\* One iteration: the cursor moves to a strictly smaller key; not-found is
\* returned when no entry is left below the cursor.
LoopStep ==
  pos.pc = "prev" =>
    /\ pos'.skips = pos.skips + 1 => wt_compare(pos'.ckey, pos.ckey) < 0
    /\ (pos'.pc = "err" /\ pos'.ret = WT_NOTFOUND) => Below(DOMAIN hs, pos.ckey) = {}

\* C17: with writers that make finitely many insertions, a call that has
\* begun returns; every iteration of the backward loop moves the cursor to a
\* strictly smaller key; the loop ends with the key at the cursor at or below
\* the search key (success), with the store exhausted (not-found) or with
\* the error of the step or of the comparison that failed.
C17_LoopTerminates ==
  /\ []LoopExits
  /\ [][LoopStep]_vars
  /\ (pos.pc # "idle") ~> (pos.pc = "done")

\* A raced call stepped back once, was still above its search key, and
\* found nothing further down: not-found.
C17_Witness ==
  /\ pos.pc = "done" /\ StepBack(pos.exact) /\ pos.skips >= 1
  /\ pos.ret = WT_NOTFOUND /\ pos.raced

(***************************************************************************)
(* Claims: __wt_hs_find_upd, the result and the buffers.                   *)
(***************************************************************************)
\* C18: the walk leaves its loop only with a Standard base, a stored
\* Standard record or the fallback, so the type is Standard when the
\* modifies are applied (the assertion of line 315), and every call that
\* returns success with skip_buf unset and an entry found reports Standard.
C18_ResultIsStandard ==
  /\ WalkEnded => fu.upd_type = WT_UPDATE_STANDARD
  /\ (FindDone /\ fu.ret = 0 /\ ~fu.skip_buf /\ fu.first # NoKey) =>
       fu.upd_value.type = WT_UPDATE_STANDARD

\* The record located is a modify, the next one a Standard record, and the
\* result, which came in invalid, reports Standard.
C18_Witness ==
  /\ FindDone /\ fu.ret = 0 /\ ~fu.skip_buf /\ fu.first # NoKey
  /\ hs[fu.first].type = WT_UPDATE_MODIFY /\ Len(fu.walked) = 1 /\ ~fu.fellback
  /\ fu.upd_arg.type = WT_UPDATE_INVALID /\ fu.upd_value.type = WT_UPDATE_STANDARD

\* C19: __wt_hs_find_upd releases each scratch buffer it allocated exactly
\* once, on every exit path and also after the fallback has pointed hs_value
\* at the caller's on-disk buffer, and never releases that buffer;
\* __hs_cursor_position_int releases the search key buffer on every exit
\* path if and only if it allocated it, and never one of the caller.
C19_BufferOwnership ==
  /\ \A i \in 1..Len(fu.freed) : fu.freed[i] = "scratch"
  /\ fu.pc \in {"finish", "done"} => (Len(fu.freed) = fu.allocs /\ fu.scr = 0)
  /\ fu.pc \notin {"finish", "done"} => (fu.freed = <<>> /\ fu.scr = fu.allocs)
  /\ pos.freed # "user"
  /\ pos.pc \in {"ret", "done"} => ((pos.freed = "own" <=> pos.allocs = 1) /\ pos.scr = 0)
  /\ pos.pc \notin {"ret", "done", "idle"} => (pos.freed = "none" /\ pos.scr = pos.allocs)
  /\ pos.user => pos.allocs = 0

\* A call fell back to the on-disk buffer, applied a modify to it in place,
\* failed afterwards and released its scratch buffer.
C19_Witness ==
  /\ FindDone /\ fu.fellback /\ fu.fault \in {"apply", "buf_set"}
  /\ fu.applied # <<>> /\ fu.freed = <<"scratch">> /\ fu.allocs = 1

\* C20: while the walk has not fallen back the caller's on-disk buffer holds
\* what the caller passed, whatever the outcome of the call; after a fallback
\* the collected modifies are applied to that buffer in place, and when the
\* call returns success the buffer holds the reconstructed value, which is
\* the payload returned.
C20_OnDiskBuffer ==
  /\ ~fu.fellback => fu.on_disk_buf = fu.on_disk_arg
  /\ (fu.fellback /\ fu.fault = "none") =>
       fu.on_disk_buf =
         AppliedDown(SubSeq(fu.walked, Len(fu.walked) - Len(fu.applied) + 1, Len(fu.walked)),
                     Len(fu.applied), fu.on_disk_arg)
  /\ (FindDone /\ fu.ret = 0 /\ fu.fellback) =>
       /\ fu.on_disk_buf = AppliedDown(fu.walked, Len(fu.walked), fu.on_disk_arg)
       /\ fu.on_disk_buf = fu.upd_value.buf

\* One modify was applied in place: the caller's buffer no longer holds the
\* on-disk value but the payload returned.
C20_Witness ==
  /\ FindDone /\ fu.ret = 0 /\ fu.fellback /\ Len(fu.applied) = 1
  /\ fu.on_disk_buf # fu.on_disk_arg /\ fu.on_disk_buf = fu.upd_value.buf

====
